---- MODULE Spec2Model ----
(***************************************************************************)
(* Authentication subsystem of the AutoDesk Kiwi API (src/api/auth.py):    *)
(* the User table, the JWT codec, the two identity dependencies and the    *)
(* /auth routes, run by concurrent request workers over one database;      *)
(* the password hashers on their own, and the JWT secret of                *)
(* src/api/config.py over restarts of the process.                         *)
(***************************************************************************)
EXTENDS Integers, Sequences, FiniteSets, TLC

\* ------------------------------------------------------------------ bounds
\* How many requests the server receives in one behaviour.
MaxRequests == 3
\* How many tokens are outstanding in a behaviour of the codec.
MaxTokens == 1
\* The largest id the task table hands out.
MaxTasks == 3

\* Request worker threads that may run register concurrently.
Workers == {"w1", "w2"}
\* A username and an email address are their character sequences.
Usernames == {<<"a", "l", "i">>, <<"b", "o", "b">>}
Emails == {<<"a", "@", "x", ".", "c">>, <<"b", "@", "x", ".", "c">>}
\* A password is its utf-8 byte sequence.
Pw(c, n) == [i \in 1..n |-> c]
Passwords == {Pw(1, 8), Pw(2, 8)}
\* The bodies POST /auth/register is sent.
RegisterBodies ==
    {[username |-> u, email |-> e, password |-> Pw(1, 8)] :
        u \in Usernames, e \in Emails}
\* The values bcrypt.gensalt() draws. No handler branches on the salt of a
\* stored hash, so the requests of this model are served with one.
Salts == {"s1"}

\* ------------------------------------------------------- program constants
jwt_expire_minutes == 1440
ACCESS_TOKEN_EXPIRE_MINUTES == jwt_expire_minutes
ALGORITHM == "HS256"
PlaceholderSecret == "CHANGEZ-MOI-EN-PRODUCTION-avec-une-cle-secrete-unique"
\* A key the process does not hold (tokens made by somebody else).
ForeignKey == "foreign_key"
BcryptMaxBytes == 72

HTTP_200_OK == 200
HTTP_201_CREATED == 201
HTTP_400_BAD_REQUEST == 400
HTTP_401_UNAUTHORIZED == 401
HTTP_403_FORBIDDEN == 403
HTTP_422_UNPROCESSABLE_ENTITY == 422
HTTP_500_INTERNAL_SERVER_ERROR == 500

VARIABLES
    users,   \* rows of the user table
    issued,  \* access tokens handed to clients by login
    now,     \* wall clock, whole seconds since the epoch of the run
    pc,      \* per worker: where it is inside register
    req,     \* per worker: the UserCreate body it is registering
    served,  \* requests received so far
    last,    \* the request answered most recently, with its response
    jwt_secret_file,  \* contents of the .jwt_secret file next to config.py
    jwt_secret_key,   \* settings.jwt_secret_key of the running process
    tasks    \* rows of the task table

vars == <<users, issued, now, pc, req, served, last,
          jwt_secret_file, jwt_secret_key, tasks>>

None == [kind |-> "none"]
Raise(exc) == [kind |-> "raise", exc |-> exc]
Return(value) == [kind |-> "return", value |-> value]

SECRET_KEY == jwt_secret_key

\* ----------------------------------------------------------- password utils
Take(s, n) == IF Len(s) <= n THEN s ELSE SubSeq(s, 1, n)

\* bcrypt.hashpw: salt and digest in one string; the digest is a function of
\* the salt and of the first 72 bytes of the password.
bcrypt_hashpw(password_bytes, salt) ==
    [salt |-> salt, digest |-> Take(password_bytes, BcryptMaxBytes)]

get_password_hash(password, salt) ==
    LET password_bytes == Take(password, BcryptMaxBytes)
    IN  bcrypt_hashpw(password_bytes, salt)

\* A stored string bcrypt can parse: it starts with a salt.
well_formed(hashed_password) == hashed_password.salt # ""

\* The bcrypt package the process runs with; the project pins none. Up to 4.x
\* hashpw and checkpw drop the bytes of a password after the 72nd, from 5.0
\* they raise ValueError for a password longer than 72 bytes.
BcryptBuilds == {"truncates", "raises"}

\* bcrypt.checkpw: hash again with the salt of the stored hash and compare;
\* ValueError for a stored string that is no bcrypt hash.
bcrypt_checkpw(password_bytes, hashed_password, build) ==
    IF Len(password_bytes) > BcryptMaxBytes /\ build = "raises"
    THEN Raise("ValueError")
    ELSE IF ~well_formed(hashed_password) THEN Raise("ValueError")
    ELSE Return(bcrypt_hashpw(password_bytes, hashed_password.salt)
                  = hashed_password)

\* The password goes to checkpw whole: nothing is cut, nothing is caught.
verify_password(plain_password, hashed_password, build) ==
    bcrypt_checkpw(plain_password, hashed_password, build)

\* ------------------------------------------------------------ configuration
\* os.getenv: None, or the string the variable is set to.
NoEnv == None
Env(value) == [kind |-> "str", value |-> value]
NoFile == None
\* The values secrets.token_urlsafe(32) draws.
GeneratedSecrets == {"secret_1", "secret_2"}

\* Path.write_text and Path.read_text; an editor may leave a final newline.
write_text(text) == [text |-> text, newline |-> FALSE]
read_text(file) == file
strip(file) == file.text

\* Mutant of get_or_create_jwt_secret: the generated secret is not written.
get_or_create_jwt_secret_not_written(env_secret, secret_file, new_secret) ==
    IF env_secret # NoEnv /\ env_secret.value # ""
         /\ env_secret.value # PlaceholderSecret
    THEN [secret |-> env_secret.value, file |-> secret_file]
    ELSE IF secret_file # NoFile
    THEN [secret |-> strip(read_text(secret_file)), file |-> secret_file]
    ELSE [secret |-> new_secret, file |-> secret_file]

\* The secret and the file the call leaves behind.
get_or_create_jwt_secret(env_secret, secret_file, new_secret) ==
    IF env_secret # NoEnv /\ env_secret.value # ""
         /\ env_secret.value # PlaceholderSecret
    THEN [secret |-> env_secret.value, file |-> secret_file]
    ELSE IF secret_file # NoFile
    THEN [secret |-> strip(read_text(secret_file)), file |-> secret_file]
    ELSE [secret |-> new_secret, file |-> write_text(new_secret)]

\* Settings().jwt_secret_key: the JWT_SECRET_KEY variable of the environment
\* when there is one, the class default otherwise.
Settings_jwt_secret_key(env_secret, default) ==
    IF env_secret # NoEnv THEN env_secret.value ELSE default

\* ---------------------------------------------------------------- jwt utils
\* timedelta(minutes=m), in seconds.
timedelta_minutes(m) == m * 60

\* Mutant of create_access_token: the lifetime in minutes is added to the
\* clock as if it were seconds.
create_access_token_minutes_as_seconds(data, expires_delta, t) ==
    [kind |-> "jwt", sub |-> data.sub, exp |-> t + ACCESS_TOKEN_EXPIRE_MINUTES,
     key |-> SECRET_KEY, alg |-> ALGORITHM]

\* Mutant of create_access_token: the claims passed in are left out, only the
\* expiry is encoded.
create_access_token_drops_data(data, expires_delta, t) ==
    LET expire == t + (IF expires_delta = 0
                       THEN timedelta_minutes(ACCESS_TOKEN_EXPIRE_MINUTES)
                       ELSE expires_delta)
    IN  [kind |-> "jwt", sub |-> <<>>, exp |-> expire,
         key |-> SECRET_KEY, alg |-> ALGORITHM]

\* jwt.encode: the claims, the key that signed them and the algorithm. A
\* timedelta of zero is falsy, like None, and gives the default lifetime.
create_access_token(data, expires_delta, t) ==
    LET expire == t + (IF expires_delta = 0
                       THEN timedelta_minutes(ACCESS_TOKEN_EXPIRE_MINUTES)
                       ELSE expires_delta)
    IN  [kind |-> "jwt", sub |-> data.sub, exp |-> expire,
         key |-> SECRET_KEY, alg |-> ALGORITHM]

\* Mutant of decode_token: the expiry is not verified.
decode_token_no_exp(token, t) ==
    IF token.kind # "jwt" THEN None
    ELSE IF token.key # SECRET_KEY \/ token.alg # ALGORITHM THEN None
    ELSE [kind |-> "payload", sub |-> token.sub, exp |-> token.exp]

\* Mutant of decode_token: the signature is not verified.
decode_token_no_signature(token, t) ==
    IF token.kind # "jwt" THEN None
    ELSE IF token.alg # ALGORITHM THEN None
    ELSE IF token.exp < t THEN None
    ELSE [kind |-> "payload", sub |-> token.sub, exp |-> token.exp]

\* jwt.decode: JWTError for a malformed token, a signature made with another
\* key, another algorithm, or exp < now; the payload otherwise.
decode_token(token, t) ==
    IF token.kind # "jwt" THEN None
    ELSE IF token.key # SECRET_KEY \/ token.alg # ALGORITHM THEN None
    ELSE IF token.exp < t THEN None
    ELSE [kind |-> "payload", sub |-> token.sub, exp |-> token.exp]

\* ------------------------------------------------------------ the user table
\* select(User).where(User.username == username).first()
find_by_username(us, username) ==
    LET m == {u \in us : u.username = username}
    IN  IF m = {} THEN None
        ELSE CHOOSE u \in m : \A v \in m : u.id <= v.id

\* select(User).where(User.email == email).first()
find_by_email(us, email) ==
    LET m == {u \in us : u.email = email}
    IN  IF m = {} THEN None
        ELSE CHOOSE u \in m : \A v \in m : u.id <= v.id

\* The id the table gives the next row (integer primary key).
next_id(us) ==
    IF us = {} THEN 1
    ELSE 1 + (CHOOSE i \in {u.id : u \in us} : \A v \in us : v.id <= i)

\* Mutant of unique_ok: the email column has no unique index.
unique_ok_username_only(us, row) ==
    \A u \in us : u.username # row.username

\* The unique indexes on username and email: whether a row may be inserted.
unique_ok(us, row) ==
    \A u \in us : u.username # row.username /\ u.email # row.email

User(id, username, email, hashed_password, t) ==
    [id |-> id, username |-> username, email |-> email,
     hashed_password |-> hashed_password, is_active |-> TRUE, created_at |-> t]

\* The characters of the pattern ^[a-zA-Z0-9_]+$.
WordChars ==
    {"a", "b", "c", "d", "e", "f", "g", "h", "i", "j", "k", "l", "m", "n",
     "o", "p", "q", "r", "s", "t", "u", "v", "w", "x", "y", "z",
     "A", "B", "C", "D", "E", "F", "G", "H", "I", "J", "K", "L", "M", "N",
     "O", "P", "Q", "R", "S", "T", "U", "V", "W", "X", "Y", "Z",
     "0", "1", "2", "3", "4", "5", "6", "7", "8", "9", "_"}

username_min_length == 3
username_max_length == 50
password_min_length == 8
password_max_length == 100

\* EmailStr: one "@", something before it, and after it a domain of at least
\* two labels, none of them empty.
EmailStr_valid(email) ==
    /\ Cardinality({i \in 1..Len(email) : email[i] = "@"}) = 1
    /\ LET at == CHOOSE i \in 1..Len(email) : email[i] = "@"
       IN  /\ at > 1
           /\ \E i \in (at + 1)..Len(email) : email[i] = "."
           /\ \A i \in (at + 1)..Len(email) :
                 email[i] = "." =>
                   /\ i > at + 1 /\ i < Len(email)
                   /\ email[i + 1] # "."

\* Mutant of UserCreate_valid: the username has no pattern.
UserCreate_valid_no_pattern(user_data) ==
    /\ Len(user_data.username) >= username_min_length
    /\ Len(user_data.username) <= username_max_length
    /\ EmailStr_valid(user_data.email)
    /\ Len(user_data.password) >= password_min_length
    /\ Len(user_data.password) <= password_max_length

\* UserCreate: whether pydantic accepts the body of POST /auth/register.
UserCreate_valid(user_data) ==
    /\ Len(user_data.username) >= username_min_length
    /\ Len(user_data.username) <= username_max_length
    /\ \A i \in 1..Len(user_data.username) : user_data.username[i] \in WordChars
    /\ EmailStr_valid(user_data.email)
    /\ Len(user_data.password) >= password_min_length
    /\ Len(user_data.password) <= password_max_length

UserOut(u) ==
    [kind |-> "user", id |-> u.id, username |-> u.username, email |-> u.email,
     is_active |-> u.is_active, created_at |-> u.created_at]

\* ----------------------------------------------------------------- responses
HTTPException(status_code, detail, www_authenticate) ==
    [status |-> status_code, detail |-> detail,
     www_authenticate |-> www_authenticate, body |-> None]

Response(status_code, body) ==
    [status |-> status_code, detail |-> "", www_authenticate |-> "", body |-> body]

\* The handler registered for Exception: a generic 500.
general_exception_handler ==
    HTTPException(HTTP_500_INTERNAL_SERVER_ERROR, "Internal server error", "")

\* FastAPI answers a body that fails validation before the handler is called.
request_validation_exception_handler ==
    HTTPException(HTTP_422_UNPROCESSABLE_ENTITY, "validation error", "")

\* -------------------------------------------------------------- dependencies
NoCredentials == None
Malformed == [kind |-> "garbage"]

\* Mutant of get_current_user: is_active is not looked at.
get_current_user_any_user(credentials, t, us) ==
    IF credentials = NoCredentials THEN None
    ELSE LET payload == decode_token(credentials, t)
         IN  IF payload = None THEN None
             ELSE find_by_username(us, payload.sub)

\* Mutant of get_current_user: the expiry of the token is not verified.
get_current_user_accepts_expired(credentials, t, us) ==
    IF credentials = NoCredentials THEN None
    ELSE LET payload == decode_token_no_exp(credentials, t)
         IN  IF payload = None THEN None
             ELSE IF Len(payload.sub) = 0 THEN None
             ELSE LET user == find_by_username(us, payload.sub)
                  IN  IF user # None /\ user.is_active THEN user ELSE None

get_current_user(credentials, t, us) ==
    IF credentials = NoCredentials THEN None
    ELSE LET payload == decode_token(credentials, t)
         IN  IF payload = None THEN None
             ELSE IF Len(payload.sub) = 0 THEN None
             ELSE LET user == find_by_username(us, payload.sub)
                  IN  IF user # None /\ user.is_active THEN user ELSE None

\* Mutant of require_auth: is_active is not looked at.
require_auth_no_active_check(credentials, t, us) ==
    IF credentials = NoCredentials
    THEN Raise(HTTPException(HTTP_401_UNAUTHORIZED, "Authentication required", "Bearer"))
    ELSE LET payload == decode_token(credentials, t)
         IN  IF payload = None
             THEN Raise(HTTPException(HTTP_401_UNAUTHORIZED, "Invalid or expired token", "Bearer"))
             ELSE LET user == find_by_username(us, payload.sub)
                  IN  IF user = None
                      THEN Raise(HTTPException(HTTP_401_UNAUTHORIZED, "User not found", "Bearer"))
                      ELSE Return(user)

\* Mutant of require_auth: a disabled account is answered like a missing one.
require_auth_disabled_as_missing(credentials, t, us) ==
    IF credentials = NoCredentials
    THEN Raise(HTTPException(HTTP_401_UNAUTHORIZED, "Authentication required", "Bearer"))
    ELSE LET payload == decode_token(credentials, t)
         IN  IF payload = None
             THEN Raise(HTTPException(HTTP_401_UNAUTHORIZED, "Invalid or expired token", "Bearer"))
             ELSE LET user == find_by_username(us, payload.sub)
                  IN  IF user = None \/ ~user.is_active
                      THEN Raise(HTTPException(HTTP_401_UNAUTHORIZED, "User not found", "Bearer"))
                      ELSE Return(user)

require_auth(credentials, t, us) ==
    IF credentials = NoCredentials
    THEN Raise(HTTPException(HTTP_401_UNAUTHORIZED, "Authentication required", "Bearer"))
    ELSE LET payload == decode_token(credentials, t)
         IN  IF payload = None
             THEN Raise(HTTPException(HTTP_401_UNAUTHORIZED, "Invalid or expired token", "Bearer"))
             ELSE IF Len(payload.sub) = 0
             THEN Raise(HTTPException(HTTP_401_UNAUTHORIZED, "Invalid token payload", "Bearer"))
             ELSE LET user == find_by_username(us, payload.sub)
                  IN  IF user = None
                      THEN Raise(HTTPException(HTTP_401_UNAUTHORIZED, "User not found", "Bearer"))
                      ELSE IF ~user.is_active
                      THEN Raise(HTTPException(HTTP_403_FORBIDDEN, "User account is disabled", ""))
                      ELSE Return(user)

\* --------------------------------------------------------------------- state
NoRequest == None
NoLast == [op |-> "none", req |-> None, resp |-> None]

Init ==
    /\ users = {}
    /\ issued = {}
    /\ now = 0
    /\ pc = [w \in Workers |-> "idle"]
    /\ req = [w \in Workers |-> NoRequest]
    /\ served = 0
    /\ tasks = {}
    /\ last = NoLast
    /\ jwt_secret_file = write_text("secret_1")
    /\ jwt_secret_key = "secret_1"

\* The credentials a request may carry: none, a string that is no token, a
\* token login handed out, or a token somebody signed with a key of their own.
Credentials ==
    {NoCredentials, Malformed} \cup issued
      \cup {[kind |-> "jwt", sub |-> u,
             exp |-> now + timedelta_minutes(ACCESS_TOKEN_EXPIRE_MINUTES),
             key |-> ForeignKey, alg |-> ALGORITHM] : u \in Usernames}

\* A request is received.
receive ==
    /\ served < MaxRequests
    /\ served' = served + 1

\* ------------------------------------------------------------------ register
register_begin(w, user_data) ==
    /\ pc[w] = "idle"
    /\ receive
    /\ IF UserCreate_valid(user_data)
       THEN /\ pc' = [pc EXCEPT ![w] = "check_username"]
            /\ req' = [req EXCEPT ![w] = user_data]
            /\ last' = last
       ELSE /\ last' = [op |-> "register", req |-> user_data,
                        resp |-> request_validation_exception_handler]
            /\ UNCHANGED <<pc, req>>
    /\ UNCHANGED <<users, issued, now, jwt_secret_file, jwt_secret_key, tasks>>

register_finish(w, resp) ==
    /\ pc' = [pc EXCEPT ![w] = "idle"]
    /\ req' = [req EXCEPT ![w] = NoRequest]
    /\ last' = [op |-> "register", req |-> req[w], resp |-> resp]

\* Mutant of register_check_username: the first check looks the email up.
register_check_username_by_email(w) ==
    /\ pc[w] = "check_username"
    /\ IF find_by_email(users, req[w].email) # None
       THEN register_finish(w, HTTPException(HTTP_400_BAD_REQUEST,
                                             "Email already registered", ""))
       ELSE /\ pc' = [pc EXCEPT ![w] = "check_email"]
            /\ UNCHANGED <<req, last>>
    /\ UNCHANGED <<users, issued, now, served, jwt_secret_file, jwt_secret_key, tasks>>

register_check_username(w) ==
    /\ pc[w] = "check_username"
    /\ IF find_by_username(users, req[w].username) # None
       THEN register_finish(w, HTTPException(HTTP_400_BAD_REQUEST,
                                             "Username already registered", ""))
       ELSE /\ pc' = [pc EXCEPT ![w] = "check_email"]
            /\ UNCHANGED <<req, last>>
    /\ UNCHANGED <<users, issued, now, served, jwt_secret_file, jwt_secret_key, tasks>>

register_check_email(w) ==
    /\ pc[w] = "check_email"
    /\ IF find_by_email(users, req[w].email) # None
       THEN register_finish(w, HTTPException(HTTP_400_BAD_REQUEST,
                                             "Email already registered", ""))
       ELSE /\ pc' = [pc EXCEPT ![w] = "commit"]
            /\ UNCHANGED <<req, last>>
    /\ UNCHANGED <<users, issued, now, served, jwt_secret_file, jwt_secret_key, tasks>>

\* Mutant of register_commit: a row that meets a unique index replaces the
\* rows it collides with.
register_commit_replaces(w, salt) ==
    /\ pc[w] = "commit"
    /\ LET hashed_password == get_password_hash(req[w].password, salt)
           user == User(next_id(users), req[w].username, req[w].email,
                        hashed_password, now)
           kept == {u \in users : u.username # user.username
                                    /\ u.email # user.email}
       IN  /\ users' = kept \cup {user}
           /\ register_finish(w, Response(HTTP_201_CREATED, UserOut(user)))
    /\ UNCHANGED <<issued, now, served, jwt_secret_file, jwt_secret_key, tasks>>

\* session.add, session.commit: the insert meets the unique indexes; an
\* IntegrityError leaves the handler, get_session rolls back and re-raises.
register_commit(w, salt) ==
    /\ pc[w] = "commit"
    /\ LET hashed_password == get_password_hash(req[w].password, salt)
           user == User(next_id(users), req[w].username, req[w].email,
                        hashed_password, now)
       IN  IF unique_ok(users, user)
           THEN /\ users' = users \cup {user}
                /\ register_finish(w, Response(HTTP_201_CREATED, UserOut(user)))
           ELSE /\ users' = users
                /\ register_finish(w, general_exception_handler)
    /\ UNCHANGED <<issued, now, served, jwt_secret_file, jwt_secret_key, tasks>>

\* --------------------------------------------------------------------- login
Token(access_token, expires_in) ==
    [kind |-> "token", access_token |-> access_token, token_type |-> "bearer",
     expires_in |-> expires_in]

login_answer(credentials, resp) ==
    last' = [op |-> "login", req |-> credentials, resp |-> resp]

login_success(user, credentials) ==
    LET access_token ==
            create_access_token([sub |-> user.username],
                timedelta_minutes(ACCESS_TOKEN_EXPIRE_MINUTES), now)
    IN  /\ login_answer(credentials,
               Response(HTTP_200_OK,
                        Token(access_token, ACCESS_TOKEN_EXPIRE_MINUTES * 60)))
        /\ issued' = issued \cup {access_token}

verified(user, password, build) ==
    verify_password(password, user.hashed_password, build)

\* An exception leaves the handler: get_session rolls back, the handler for
\* Exception answers.
login_fault(credentials) ==
    /\ login_answer(credentials, general_exception_handler)
    /\ issued' = issued

login(username, password) ==
    /\ receive
    /\ \E build \in BcryptBuilds :
       LET user == find_by_username(users, username)
           credentials == [username |-> username, password |-> password]
       IN  IF user # None /\ verified(user, password, build).kind = "raise"
           THEN login_fault(credentials)
           ELSE IF user = None \/ ~verified(user, password, build).value
           THEN /\ login_answer(credentials,
                        HTTPException(HTTP_401_UNAUTHORIZED,
                                      "Incorrect username or password", "Bearer"))
                /\ issued' = issued
           ELSE IF ~user.is_active
           THEN /\ login_answer(credentials,
                        HTTPException(HTTP_403_FORBIDDEN, "User account is disabled", ""))
                /\ issued' = issued
           ELSE login_success(user, credentials)
    /\ UNCHANGED <<users, now, pc, req, jwt_secret_file, jwt_secret_key, tasks>>

\* ------------------------------------------------------- protected endpoints
get_me(credentials) ==
    /\ receive
    /\ LET current_user == require_auth(credentials, now, users)
       IN  last' = [op |-> "get_me", req |-> credentials,
                    resp |-> IF current_user.kind = "raise" THEN current_user.exc
                             ELSE Response(HTTP_200_OK, UserOut(current_user.value))]
    /\ UNCHANGED <<users, issued, now, pc, req, jwt_secret_file, jwt_secret_key, tasks>>

\* Mutant of logout: the token that logged out is taken out of circulation.
logout_revokes(credentials) ==
    /\ receive
    /\ LET current_user == require_auth(credentials, now, users)
       IN  /\ last' = [op |-> "logout", req |-> credentials,
                        resp |-> IF current_user.kind = "raise"
                                 THEN current_user.exc
                                 ELSE Response(HTTP_200_OK,
                                        [kind |-> "message",
                                         message |-> "Successfully logged out"])]
           /\ issued' = IF current_user.kind = "raise" THEN issued
                        ELSE issued \ {credentials}
    /\ UNCHANGED <<users, now, pc, req, jwt_secret_file, jwt_secret_key, tasks>>

logout(credentials) ==
    /\ receive
    /\ LET current_user == require_auth(credentials, now, users)
       IN  last' = [op |-> "logout", req |-> credentials,
                    resp |-> IF current_user.kind = "raise" THEN current_user.exc
                             ELSE Response(HTTP_200_OK,
                                    [kind |-> "message",
                                     message |-> "Successfully logged out"])]
    /\ UNCHANGED <<users, issued, now, pc, req, jwt_secret_file, jwt_secret_key, tasks>>

\* An endpoint that depends on get_current_user and reports what it resolved.
optional_identity(credentials) ==
    /\ receive
    /\ LET current_user == get_current_user(credentials, now, users)
       IN  last' = [op |-> "get_current_user", req |-> credentials,
                    resp |-> Response(HTTP_200_OK,
                                IF current_user = None THEN None
                                ELSE UserOut(current_user))]
    /\ UNCHANGED <<users, issued, now, pc, req, jwt_secret_file, jwt_secret_key, tasks>>

\* --------------------------------------------------------------- environment
\* The wall clock moves forward, to one of the instants the run observes:
\* the start, one token lifetime later, and the second after that.
Instants ==
    {0, timedelta_minutes(ACCESS_TOKEN_EXPIRE_MINUTES),
     timedelta_minutes(ACCESS_TOKEN_EXPIRE_MINUTES) + 1}

advance_clock(t) ==
    /\ t > now
    /\ now' = t
    /\ UNCHANGED <<users, issued, pc, req, served, last, jwt_secret_file, jwt_secret_key, tasks>>

\* Account management sets is_active to false.
deactivate(username) ==
    /\ \E u \in users :
         /\ u.username = username
         /\ u.is_active
         /\ users' = (users \ {u}) \cup {[u EXCEPT !.is_active = FALSE]}
    /\ UNCHANGED <<issued, now, pc, req, served, last, jwt_secret_file, jwt_secret_key, tasks>>

\* SQLModel.metadata.drop_all followed by create_all: the table is emptied.
drop_all ==
    /\ users # {}
    /\ users' = {}
    /\ UNCHANGED <<issued, now, pc, req, served, last, jwt_secret_file, jwt_secret_key, tasks>>

Next ==
    \/ \E w \in Workers, b \in RegisterBodies : register_begin(w, b)
    \/ \E w \in Workers : register_check_username(w)
    \/ \E w \in Workers : register_check_email(w)
    \/ \E w \in Workers, s \in Salts : register_commit(w, s)
    \/ \E u \in Usernames, p \in Passwords : login(u, p)
    \/ \E c \in Credentials : get_me(c)
    \/ \E c \in Credentials : logout(c)
    \/ \E c \in Credentials : optional_identity(c)
    \/ \E t \in Instants : advance_clock(t)
    \/ \E u \in Usernames : deactivate(u)
    \/ drop_all

Spec == Init /\ [][Next]_vars

\* Registration one request at a time: no register is received while another
\* is being handled.
NextSeq ==
    \/ \E w \in Workers, b \in RegisterBodies :
         /\ \A v \in Workers : pc[v] = "idle"
         /\ register_begin(w, b)
    \/ \E w \in Workers : register_check_username(w)
    \/ \E w \in Workers : register_check_email(w)
    \/ \E w \in Workers, s \in Salts : register_commit(w, s)
    \/ \E u \in Usernames, p \in Passwords : login(u, p)
    \/ \E c \in Credentials : get_me(c)
    \/ \E c \in Credentials : logout(c)
    \/ \E c \in Credentials : optional_identity(c)
    \/ \E t \in Instants : advance_clock(t)
    \/ \E u \in Usernames : deactivate(u)
    \/ drop_all

SpecSeq == Init /\ [][NextSeq]_vars

\* ------------------------------------------------- one worker, wider inputs
Alice == <<"a", "l", "i">>
Bob == <<"b", "o", "b">>
AliceMail == <<"a", "@", "x", ".", "c">>
BobMail == <<"b", "@", "x", ".", "c">>

\* Bodies pydantic accepts: a short password, and one longer than 72 bytes.
ValidBodies ==
    {[username |-> Alice, email |-> AliceMail, password |-> Pw(1, 8)],
     [username |-> Bob, email |-> BobMail,
      password |-> Pw(1, BcryptMaxBytes + 1)]}

\* Bodies pydantic refuses, one for each constraint of UserCreate.
InvalidBodies ==
    {[username |-> <<"a", "l">>, email |-> AliceMail, password |-> Pw(1, 8)],
     [username |-> [i \in 1..(username_max_length + 1) |-> "a"],
      email |-> AliceMail, password |-> Pw(1, 8)],
     [username |-> <<"a", "-", "l">>, email |-> AliceMail, password |-> Pw(1, 8)],
     [username |-> Alice, email |-> <<"a", ".", "x", ".", "c">>,
      password |-> Pw(1, 8)],
     [username |-> Alice, email |-> AliceMail,
      password |-> Pw(1, password_min_length - 1)],
     [username |-> Alice, email |-> AliceMail,
      password |-> Pw(1, password_max_length + 1)]}

WideBodies == ValidBodies \cup InvalidBodies

\* The passwords login is tried with: short ones, the long one Bob registers
\* with, and a long one that is wrong from the first byte.
WidePasswords ==
    Passwords \cup {Pw(1, BcryptMaxBytes + 1), Pw(2, BcryptMaxBytes + 1)}

\* Tokens somebody forged for a registered name: signed with a key of their
\* own, or declaring an algorithm other than HS256 (the unsigned "none" among
\* them, for which no key is needed).
ForgedTokens ==
    {[kind |-> "jwt", sub |-> Alice,
      exp |-> now + timedelta_minutes(ACCESS_TOKEN_EXPIRE_MINUTES),
      key |-> k, alg |-> a] :
        k \in {ForeignKey, SECRET_KEY}, a \in {ALGORITHM, "HS512", "none"}}
      \ {[kind |-> "jwt", sub |-> Alice,
           exp |-> now + timedelta_minutes(ACCESS_TOKEN_EXPIRE_MINUTES),
           key |-> SECRET_KEY, alg |-> ALGORITHM]}

WideCredentials == {NoCredentials, Malformed} \cup issued \cup ForgedTokens

NextWide ==
    \/ \E b \in WideBodies : register_begin("w1", b)
    \/ register_check_username("w1")
    \/ register_check_email("w1")
    \/ \E s \in Salts : register_commit("w1", s)
    \/ \E u \in Usernames, p \in WidePasswords : login(u, p)
    \/ \E c \in WideCredentials : get_me(c)
    \/ \E c \in WideCredentials : logout(c)
    \/ \E c \in WideCredentials : optional_identity(c)
    \/ \E t \in Instants : advance_clock(t)
    \/ \E u \in Usernames : deactivate(u)
    \/ drop_all

SpecWide == Init /\ [][NextWide]_vars

\* ---------------------------------------------- the secret and the codec
\* What JWT_SECRET_KEY is in the environment of a start: unset, the
\* placeholder of the sample configuration, or a secret of the operator.
EnvSecrets == {NoEnv, Env(PlaceholderSecret), Env("configured_secret")}

\* The first start, in a directory that has no secret file yet.
InitToken ==
    /\ users = {}
    /\ issued = {}
    /\ now = 0
    /\ pc = [w \in Workers |-> "idle"]
    /\ req = [w \in Workers |-> NoRequest]
    /\ served = 0
    /\ tasks = {}
    /\ \E e \in EnvSecrets, g \in GeneratedSecrets :
         LET r == get_or_create_jwt_secret(e, NoFile, g)
         IN  /\ jwt_secret_file = r.file
             /\ jwt_secret_key = Settings_jwt_secret_key(e, r.secret)
             /\ last = [op |-> "start", req |-> e, resp |-> None]

\* The process starts (again): config.py is imported, the Settings are built,
\* auth.py reads SECRET_KEY from them.
process_start(env_secret, new_secret) ==
    /\ LET r == get_or_create_jwt_secret(env_secret, jwt_secret_file, new_secret)
       IN  /\ jwt_secret_file' = r.file
           /\ jwt_secret_key' = Settings_jwt_secret_key(env_secret, r.secret)
    /\ last' = [op |-> "start", req |-> env_secret, resp |-> None]
    /\ UNCHANGED <<users, issued, now, pc, req, served, tasks>>

\* The lifetimes create_access_token is called with, in seconds; 0 stands
\* for no expires_delta.
Lifetimes == {0, 1, timedelta_minutes(ACCESS_TOKEN_EXPIRE_MINUTES)}

\* A caller of create_access_token, as login is.
issue(subject, ttl) ==
    /\ Cardinality(issued) < MaxTokens
    /\ LET access_token == create_access_token([sub |-> subject], ttl, now)
       IN  /\ issued' = issued \cup {access_token}
           /\ last' = [op |-> "create_access_token",
                        req |-> [sub |-> subject, ttl |-> ttl],
                        resp |-> access_token]
    /\ UNCHANGED <<users, now, pc, req, served, jwt_secret_file, jwt_secret_key, tasks>>

\* A caller of decode_token, as the two dependencies are.
decode(token) ==
    /\ last' = [op |-> "decode_token", req |-> token,
                resp |-> decode_token(token, now)]
    /\ UNCHANGED <<users, issued, now, pc, req, served,
                   jwt_secret_file, jwt_secret_key, tasks>>

\* Somebody saves the secret file from an editor, with a final newline.
edit_secret_file ==
    /\ jwt_secret_file # NoFile
    /\ jwt_secret_file' = [jwt_secret_file EXCEPT !.newline = TRUE]
    /\ UNCHANGED <<users, issued, now, pc, req, served, last, jwt_secret_key, tasks>>

\* The secret file is lost (a fresh checkout, a new container).
remove_secret_file ==
    /\ jwt_secret_file # NoFile
    /\ jwt_secret_file' = NoFile
    /\ UNCHANGED <<users, issued, now, pc, req, served, last, jwt_secret_key, tasks>>

NextToken ==
    \/ \E e \in EnvSecrets, g \in GeneratedSecrets : process_start(e, g)
    \/ \E u \in Usernames, ttl \in Lifetimes : issue(u, ttl)
    \/ \E c \in issued \cup {Malformed} : decode(c)
    \/ \E t \in Instants : advance_clock(t)
    \/ edit_secret_file
    \/ remove_secret_file

SpecToken == InitToken /\ [][NextToken]_vars

\* -------------------------------------------------------- the two hashers
\* Passwords UserCreate accepts: short ones, one of exactly 72 bytes, three
\* that agree in their first 72 bytes and go on differently, one that is
\* long and differs from those in its first byte.
HasherPasswords ==
    {Pw(1, 8), Pw(2, 8), Pw(1, BcryptMaxBytes),
     Pw(1, BcryptMaxBytes + 1), Pw(1, BcryptMaxBytes) \o <<2>>,
     Pw(1, password_max_length), Pw(2, BcryptMaxBytes + 1)}

HasherSalts == {"s1", "s2"}

\* Stored strings that are no bcrypt hash: the empty string, a password in
\* clear.
MalformedHashes ==
    {[salt |-> "", digest |-> <<>>], [salt |-> "", digest |-> Pw(1, 8)]}

\* What get_password_hash has produced for the password.
HashesOf(password) == {get_password_hash(password, s) : s \in HasherSalts}

StoredHashes ==
    UNION {HashesOf(password) : password \in HasherPasswords}
      \cup MalformedHashes

InitHasher ==
    /\ users = {}
    /\ issued = {}
    /\ now = 0
    /\ pc = [w \in Workers |-> "idle"]
    /\ req = [w \in Workers |-> NoRequest]
    /\ served = 0
    /\ tasks = {}
    /\ last = NoLast
    /\ jwt_secret_file = write_text("secret_1")
    /\ jwt_secret_key = "secret_1"

\* A caller of get_password_hash, as register is.
hash(password, salt) ==
    /\ last' = [op |-> "get_password_hash", req |-> password,
                resp |-> get_password_hash(password, salt)]
    /\ UNCHANGED <<users, issued, now, pc, req, served,
                   jwt_secret_file, jwt_secret_key, tasks>>

\* A caller of verify_password, as login is.
verify(plain_password, hashed_password, build) ==
    /\ last' = [op |-> "verify_password",
                req |-> [plain_password |-> plain_password,
                         hashed_password |-> hashed_password],
                resp |-> verify_password(plain_password, hashed_password, build)]
    /\ UNCHANGED <<users, issued, now, pc, req, served,
                   jwt_secret_file, jwt_secret_key, tasks>>

NextHasher ==
    \/ \E password \in HasherPasswords, s \in HasherSalts : hash(password, s)
    \/ \E password \in HasherPasswords, h \in StoredHashes,
          build \in BcryptBuilds : verify(password, h, build)

SpecHasher == InitHasher /\ [][NextHasher]_vars

\* ------------------------------------------------------------ the task table
\* SQL NULL in an integer or a datetime column; ids and instants are positive.
NULL == 0 - 1

\* The statuses the handlers name, and one they do not.
TaskStatuses == {"todo", "in_progress", "done"}

\* A row of the task table: the columns the handlers below branch on or
\* select by. A new row has no completed_at.
Task(id, parent_id, task_status) ==
    [id |-> id, parent_id |-> parent_id, status |-> task_status,
     completed_at |-> NULL]

\* session.get(Task, task_id)
session_get(ts, task_id) ==
    IF \E t \in ts : t.id = task_id
    THEN CHOOSE t \in ts : t.id = task_id
    ELSE None

\* select(Task).where(Task.parent_id == task_id)
subtasks_of(ts, task_id) == {st \in ts : st.parent_id = task_id}

\* POST /tasks. The parent is looked up when parent_id is truthy; the new
\* row gets the next rowid.
create_task(payload) ==
    /\ next_id(tasks) <= MaxTasks
    /\ IF payload.parent_id # NULL /\ payload.parent_id # 0
          /\ session_get(tasks, payload.parent_id) = None
       THEN tasks' = tasks
       ELSE tasks' = tasks \cup {Task(next_id(tasks), payload.parent_id, "todo")}
    /\ UNCHANGED <<users, issued, now, pc, req, served, last,
                   jwt_secret_file, jwt_secret_key>>

\* update_task without the branch that clears completed_at.
updated_never_clears(task, payload, t) ==
    IF "status" \notin DOMAIN payload THEN task
    ELSE LET old_status == task.status
         IN  [task EXCEPT
                !.status = payload.status,
                !.completed_at =
                    IF payload.status = "done" /\ old_status # "done" THEN t
                    ELSE @]

\* The row update_task writes for a payload; a payload has a status field
\* when its status is not None.
updated(task, payload, t) ==
    IF "status" \notin DOMAIN payload THEN task
    ELSE LET old_status == task.status
         IN  [task EXCEPT
                !.status = payload.status,
                !.completed_at =
                    IF payload.status = "done" /\ old_status # "done" THEN t
                    ELSE IF payload.status # "done" /\ old_status = "done"
                    THEN NULL
                    ELSE @]

\* PUT /tasks/{task_id}
update_task(task_id, payload) ==
    /\ LET task == session_get(tasks, task_id)
       IN  IF task = None
           THEN tasks' = tasks
           ELSE tasks' = (tasks \ {task}) \cup {updated(task, payload, now)}
    /\ UNCHANGED <<users, issued, now, pc, req, served, last,
                   jwt_secret_file, jwt_secret_key>>

\* What deleting one task takes out of the table: the rows whose parent_id
\* is its id, and the task.
deleted_with(ts, task) == subtasks_of(ts, task.id) \cup {task}

\* DELETE /tasks/{task_id}
delete_task(task_id) ==
    /\ LET task == session_get(tasks, task_id)
       IN  IF task = None
           THEN tasks' = tasks
           ELSE tasks' = tasks \ deleted_with(tasks, task)
    /\ UNCHANGED <<users, issued, now, pc, req, served, last,
                   jwt_secret_file, jwt_secret_key>>

\* POST /tasks/bulk-delete
bulk_delete_tasks(ids) ==
    /\ LET found == {t \in tasks : t.id \in ids}
       IN  tasks' = tasks \ UNION {deleted_with(tasks, t) : t \in found}
    /\ UNCHANGED <<users, issued, now, pc, req, served, last,
                   jwt_secret_file, jwt_secret_key>>

\* The instants the clock of the task runs shows: 01:00 on one day, 00:30
\* and 02:00 on the next.
SecondsPerDay == 86400
TaskInstants ==
    {10 * SecondsPerDay + 3600, 11 * SecondsPerDay + 1800,
     11 * SecondsPerDay + 7200}

TaskIds == 1..MaxTasks
TaskCreates == {[parent_id |-> p] : p \in {NULL} \cup TaskIds}
TaskUpdates ==
    {[title |-> "title"]} \cup {[status |-> st] : st \in TaskStatuses}

InitTasks ==
    /\ users = {}
    /\ issued = {}
    /\ now = 10 * SecondsPerDay + 3600
    /\ pc = [w \in Workers |-> "idle"]
    /\ req = [w \in Workers |-> NoRequest]
    /\ served = 0
    /\ tasks = {}
    /\ last = NoLast
    /\ jwt_secret_file = write_text("secret_1")
    /\ jwt_secret_key = "secret_1"

NextTasks ==
    \/ \E payload \in TaskCreates : create_task(payload)
    \/ \E task_id \in TaskIds, payload \in TaskUpdates :
         update_task(task_id, payload)
    \/ \E task_id \in TaskIds : delete_task(task_id)
    \/ \E ids \in SUBSET TaskIds : bulk_delete_tasks(ids)
    \/ \E t \in TaskInstants : advance_clock(t)

SpecTasks == InitTasks /\ [][NextTasks]_vars

\* ------------------------------------------------------- the daily statistics
\* timedelta(days=days), in seconds
timedelta_days(days) == days * SecondsPerDay

\* func.date(...) and datetime.date(): the calendar day an instant falls on,
\* as a day number.
date(t) == t \div SecondsPerDay

\* The rows the statement counts: completed, not before start_date, top level.
completed_since(ts, start_date) ==
    {t \in ts : /\ t.completed_at # NULL
                /\ t.completed_at >= start_date
                /\ t.parent_id = NULL}

\* date_counts.get(str(date), 0) over the grouped result
date_counts_get(results, d) ==
    Cardinality({t \in results : date(t.completed_at) = d})

\* The list get_daily_task_stats returns at instant t.
daily_stats(ts, days, t) ==
    LET end_date == t
        start_date == end_date - timedelta_days(days)
        results == completed_since(ts, start_date)
    IN  [i \in 1..days |->
            LET d == date(start_date + timedelta_days(i - 1))
            IN  [date |-> d, completed |-> date_counts_get(results, d)]]

\* GET /analytics/tasks/daily
get_daily_task_stats(days) ==
    /\ last' = [op |-> "get_daily_task_stats", req |-> [days |-> days],
                resp |-> daily_stats(tasks, days, now)]
    /\ UNCHANGED <<users, issued, now, pc, req, served, tasks,
                   jwt_secret_file, jwt_secret_key>>

Days == {1, 2}

NextDaily ==
    \/ \E payload \in TaskCreates : create_task(payload)
    \/ \E task_id \in TaskIds, payload \in TaskUpdates :
         update_task(task_id, payload)
    \/ \E t \in TaskInstants : advance_clock(t)
    \/ \E days \in Days : get_daily_task_stats(days)

SpecDaily == InitTasks /\ [][NextDaily]_vars

\* -------------------------------------------------------------------- claims
\* The row of the token's subject is in the table and disabled.
SubjectInactive(c, us) ==
    /\ c.kind = "jwt"
    /\ \E u \in us : u.username = c.sub /\ ~u.is_active

\* The row of the token's subject is not in the table.
SubjectMissing(c, us) ==
    /\ c.kind = "jwt"
    /\ \A u \in us : u.username # c.sub

\* C1: a request whose token names a user with is_active false is never
\* granted an identity, even when the token is correctly signed and not
\* expired: GET /auth/me and POST /auth/logout answer with a rejection and no
\* body, and get_current_user resolves to None.
C1_InactiveNeverGranted ==
    [][\A c \in Credentials :
          SubjectInactive(c, users) =>
            /\ (get_me(c) \/ logout(c)) =>
                 /\ last'.resp.status \in {HTTP_401_UNAUTHORIZED, HTTP_403_FORBIDDEN}
                 /\ last'.resp.body = None
            /\ optional_identity(c) => last'.resp.body = None]_vars

\* C1 witness: GET /auth/me carried a token that login issued and that has
\* not expired, its user has been disabled since, and the answer was 403.
C1_Witness ==
    /\ last.op = "get_me"
    /\ last.req \in issued
    /\ last.req.exp >= now
    /\ SubjectInactive(last.req, users)
    /\ last.resp.status = HTTP_403_FORBIDDEN

\* C2: require_auth answers, in this order: no credentials with 401
\* "Authentication required"; a token that fails decode with 401 "Invalid or
\* expired token"; a subject missing from the table with 401 "User not found";
\* a disabled user with 403 "User account is disabled"; and returns the user
\* only when none of the four applies.
C2_RequireAuthRejections ==
    [][\A c \in Credentials :
          (get_me(c) \/ logout(c)) =>
            LET r == last'.resp
            IN  IF c = NoCredentials
                THEN r.status = 401 /\ r.detail = "Authentication required"
                ELSE IF decode_token(c, now) = None
                THEN r.status = 401 /\ r.detail = "Invalid or expired token"
                ELSE IF SubjectMissing(c, users)
                THEN r.status = 401 /\ r.detail = "User not found"
                ELSE IF SubjectInactive(c, users)
                THEN r.status = 403 /\ r.detail = "User account is disabled"
                ELSE /\ r.status = 200
                     /\ get_me(c) => r.body.kind = "user" /\ r.body.username = c.sub]_vars

\* C2 witness: GET /auth/me carried a valid token whose user is no longer in
\* the table, and the answer was 401 "User not found".
C2_Witness ==
    /\ last.op = "get_me"
    /\ last.req \in issued
    /\ decode_token(last.req, now) # None
    /\ SubjectMissing(last.req, users)
    /\ last.resp.status = 401
    /\ last.resp.detail = "User not found"

\* C3: get_current_user never ends in an error: it resolves to None when
\* there are no credentials, the token fails decode, the subject is missing or
\* the user is disabled, and to the user only for a valid token of an existing
\* active user.
C3_OptionalIdentity ==
    [][\A c \in Credentials :
          optional_identity(c) =>
            /\ last'.resp.status = 200
            /\ IF \/ c = NoCredentials
                  \/ decode_token(c, now) = None
                  \/ SubjectMissing(c, users)
                  \/ SubjectInactive(c, users)
               THEN last'.resp.body = None
               ELSE /\ last'.resp.body.kind = "user"
                    /\ last'.resp.body.username = c.sub
                    /\ last'.resp.body.is_active]_vars

\* C3 witness: get_current_user was given a valid token of a disabled user
\* and resolved to None.
C3_Witness ==
    /\ last.op = "get_current_user"
    /\ last.req \in issued
    /\ decode_token(last.req, now) # None
    /\ SubjectInactive(last.req, users)
    /\ last.resp.status = 200
    /\ last.resp.body = None

\* C4: no two rows of the user table share a username, and no two share an
\* email, whatever the interleaving of register requests.
C4_UniqueUsernameEmail ==
    \A u \in users : \A v \in users :
        u # v => u.username # v.username /\ u.email # v.email

\* C4 witness: two register requests raced, one lost at the unique index, and
\* the table holds the winner.
C4_Witness ==
    /\ last.op = "register"
    /\ last.resp.status = HTTP_500_INTERNAL_SERVER_ERROR
    /\ \E u \in users :
         u.username = last.req.username \/ u.email = last.req.email

\* The insert of worker w meets a row with its username or its email.
LosesAtIndex(w) ==
    \E u \in users : u.username = req[w].username \/ u.email = req[w].email

\* C5: the register request that loses a race at the unique index is answered
\* 400 with an "already registered" detail, never with a generic 500.
C5_RaceLoserGetsConflict ==
    [][\A w \in Workers : \A s \in Salts :
          (register_commit(w, s) /\ LosesAtIndex(w)) =>
            /\ last'.resp.status = HTTP_400_BAD_REQUEST
            /\ last'.resp.detail \in {"Username already registered",
                                      "Email already registered"}]_vars

\* A register request of worker w is answered in this step.
RegisterAnswered(w) == pc[w] # "idle" /\ pc'[w] = "idle"

\* C6: with register requests handled one at a time, a register with a free
\* username and a free email is answered 201 and adds its row; one whose
\* username is taken is answered 400 "Username already registered" whatever
\* its email; "Email already registered" is answered only when the username
\* is free and the email is taken.
C6_SequentialRegister ==
    [][\A w \in Workers :
          RegisterAnswered(w) =>
            LET b == req[w]
                r == last'.resp
            IN  IF \E u \in users : u.username = b.username
                THEN /\ r.status = 400
                     /\ r.detail = "Username already registered"
                     /\ users' = users
                ELSE IF \E u \in users : u.email = b.email
                THEN /\ r.status = 400
                     /\ r.detail = "Email already registered"
                     /\ users' = users
                ELSE /\ r.status = 201
                     /\ \E u \in users' :
                          /\ u.username = b.username
                          /\ u.email = b.email
                          /\ users' = users \cup {u}]_vars

\* C6 witness: a register that reused both the username and the email of an
\* existing row was answered "Username already registered".
C6_Witness ==
    /\ last.op = "register"
    /\ last.resp.detail = "Username already registered"
    /\ \E u \in users :
         u.username = last.req.username /\ u.email = last.req.email

\* The password is not the one the row of this username was registered with.
WrongPassword(username, password) ==
    \E u \in users :
        /\ u.username = username
        /\ u.hashed_password \notin {get_password_hash(password, s) : s \in Salts}

\* The password is the one the row of this username was registered with.
RightPassword(username, password) ==
    \E u \in users :
        /\ u.username = username
        /\ u.hashed_password \in {get_password_hash(password, s) : s \in Salts}

\* C7: login with an unknown username and login with a known username and a
\* wrong password get one and the same answer, 401 "Incorrect username or
\* password" with the same headers, whether or not the account is active.
C7_LoginFailureUniform ==
    [][\A u \in Usernames : \A p \in WidePasswords :
          (login(u, p) /\ (SubjectMissing([kind |-> "jwt", sub |-> u], users)
                             \/ WrongPassword(u, p))) =>
            /\ last'.resp = [status |-> 401,
                             detail |-> "Incorrect username or password",
                             www_authenticate |-> "Bearer", body |-> None]
            /\ issued' = issued]_vars

\* C8: login with the right password for a disabled account is answered 403
\* "User account is disabled", which is not the answer to bad credentials,
\* and issues no token.
C8_LoginDisabled ==
    [][\A u \in Usernames : \A p \in WidePasswords :
          (login(u, p) /\ RightPassword(u, p)
                       /\ SubjectInactive([kind |-> "jwt", sub |-> u], users)) =>
            /\ last'.resp.status = 403
            /\ last'.resp.detail = "User account is disabled"
            /\ last'.resp.body = None
            /\ issued' = issued]_vars

\* C9: a successful login returns a token whose subject is the username that
\* logged in and whose exp is the issue time plus 24 hours, and expires_in is
\* that lifetime in seconds, 86400.
C9_TokenLifetime ==
    [][\A u \in Usernames : \A p \in Passwords :
          (login(u, p) /\ last'.resp.status = 200) =>
            LET token == last'.resp.body
            IN  /\ token.kind = "token"
                /\ token.access_token.sub = u
                /\ token.access_token.exp = now + 24 * 60 * 60
                /\ token.expires_in = 86400
                /\ token.access_token.exp = now + token.expires_in
                /\ token.access_token \in issued']_vars

\* C9 witness: a login succeeded at an instant other than the start of the
\* run.
C9_Witness ==
    /\ last.op = "login"
    /\ last.resp.status = 200
    /\ now > 0
    /\ last.resp.body.access_token.exp = now + 86400

\* C10: once the clock has passed the exp of an issued token, decode_token
\* returns None for it, GET /auth/me and POST /auth/logout answer it with 401
\* "Invalid or expired token", and it is never accepted again.
C10_ExpiredRejected ==
    /\ [](\A c \in issued : now > c.exp => decode_token(c, now) = None)
    /\ [][\A c \in issued :
            (now > c.exp /\ (get_me(c) \/ logout(c))) =>
              /\ last'.resp.status = 401
              /\ last'.resp.detail = "Invalid or expired token"]_vars
    /\ [][\A c \in issued :
            now > c.exp =>
              /\ now' > c.exp
              /\ require_auth(c, now', users').kind = "raise"]_vars

\* C10 witness: GET /auth/me carried an issued token after its exp and was
\* answered 401 "Invalid or expired token".
C10_Witness ==
    /\ last.op = "get_me"
    /\ last.req \in issued
    /\ now > last.req.exp
    /\ last.resp.status = 401
    /\ last.resp.detail = "Invalid or expired token"

\* The process did not sign this token: another key, or another algorithm.
NotSignedHere(c) ==
    /\ c.kind = "jwt"
    /\ (c.key # SECRET_KEY \/ c.alg # ALGORITHM)

\* C11: a token signed with a secret other than SECRET_KEY, or with an
\* algorithm other than HS256, fails decode_token (None), and no request that
\* carries it is granted an identity: GET /auth/me and POST /auth/logout
\* answer 401 "Invalid or expired token", get_current_user resolves to None.
C11_ForeignSignatureRejected ==
    [][\A c \in WideCredentials :
          NotSignedHere(c) =>
            /\ decode_token(c, now) = None
            /\ (get_me(c) \/ logout(c)) =>
                 last'.resp = HTTPException(HTTP_401_UNAUTHORIZED,
                                            "Invalid or expired token", "Bearer")
            /\ optional_identity(c) => last'.resp.body = None]_vars

\* C11 witness: GET /auth/me carried an unexpired token that names a
\* registered, active user and is signed with a foreign key, and was refused.
C11_Witness ==
    /\ last.op = "get_me"
    /\ NotSignedHere(last.req)
    /\ last.req.key = ForeignKey /\ last.req.alg = ALGORITHM
    /\ last.req.exp >= now
    /\ \E u \in users : u.username = last.req.sub /\ u.is_active
    /\ last.resp.status = HTTP_401_UNAUTHORIZED

\* C12: round trip of the codec. A token made by create_access_token for a
\* non-empty subject and a positive lifetime expires that lifetime after it
\* was made and, decoded by decode_token at any instant up to its expiry,
\* gives claims whose sub is the subject.
C12_RoundTrip ==
    [][/\ \A u \in Usernames : \A ttl \in Lifetimes :
            (ttl > 0 /\ issue(u, ttl)) =>
              \E token \in issued' :
                /\ token = last'.resp
                /\ token.exp = now + ttl
                /\ \A t \in Instants \cup {now, now + ttl} :
                      (now <= t /\ t <= token.exp) =>
                        /\ decode_token(token, t) # None
                        /\ decode_token(token, t).sub = u
       /\ \A c \in issued :
            (decode(c) /\ c.key = SECRET_KEY /\ now <= c.exp) =>
              /\ last'.resp # None
              /\ last'.resp.sub = c.sub]_vars

\* C12 witness: a token was decoded in the last second of its lifetime, a
\* day after it was made, and gave its subject back.
C12_Witness ==
    /\ last.op = "decode_token"
    /\ last.req \in issued
    /\ last.req.exp = now /\ now > 0
    /\ last.resp # None
    /\ last.resp.sub = last.req.sub
    /\ Len(last.resp.sub) > 0

\* C14: with no JWT_SECRET_KEY in the environment, a start that finds no
\* secret file generates a secret and writes it to the file; a start that
\* finds the file takes the secret from it and leaves the file alone, so the
\* secret is the one of the start that wrote the file, and every unexpired
\* token signed with it still decodes after the restart.
C14_SecretSurvivesRestart ==
    [][\A g \in GeneratedSecrets :
          process_start(NoEnv, g) =>
            IF jwt_secret_file = NoFile
            THEN /\ jwt_secret_key' = g
                 /\ jwt_secret_file' = write_text(g)
            ELSE /\ jwt_secret_file' = jwt_secret_file
                 /\ jwt_secret_key' = strip(jwt_secret_file)
                 /\ jwt_secret_key = strip(jwt_secret_file) =>
                      jwt_secret_key' = jwt_secret_key
                 /\ \A c \in issued :
                      (c.key = strip(jwt_secret_file) /\ now <= c.exp) =>
                        (decode_token(c, now) # None)']_vars

\* C14 witness: the process was started again with no secret configured,
\* after a token had been signed with the generated secret, found the file,
\* and the token still decodes.
C14_Witness ==
    /\ last.op = "start" /\ last.req = NoEnv
    /\ jwt_secret_file # NoFile
    /\ jwt_secret_key \in GeneratedSecrets
    /\ \E c \in issued :
         /\ c.key = jwt_secret_key
         /\ now <= c.exp
         /\ decode_token(c, now) # None

\* The token is unexpired and names a registered, active user.
Acceptable(c, t, us) ==
    /\ c.kind = "jwt"
    /\ t <= c.exp
    /\ \E u \in us : u.username = c.sub /\ u.is_active

\* C13: POST /auth/logout writes nothing: the user table, the tokens in
\* circulation, the secret and the registrations in progress are as before,
\* and require_auth answers the token as it did before the logout. A token
\* login issued is accepted by GET /auth/me and POST /auth/logout, logged out
\* or not, as long as it is unexpired and its user exists and is active.
C13_LogoutStateless ==
    [][/\ \A c \in Credentials :
            logout(c) =>
              /\ UNCHANGED <<users, issued, now, pc, req,
                             jwt_secret_file, jwt_secret_key, tasks>>
              /\ require_auth(c, now, users)' = require_auth(c, now, users)
       /\ \A c \in issued :
            ((get_me(c) \/ logout(c)) /\ Acceptable(c, now, users)) =>
              last'.resp.status = HTTP_200_OK]_vars

\* C13 witness: a token login issued has logged out with 200 and is still
\* accepted by require_auth.
C13_Witness ==
    /\ last.op = "logout"
    /\ last.resp.status = HTTP_200_OK
    /\ last.req \in issued
    /\ require_auth(last.req, now, users).kind = "return"

\* The two passwords differ in one of their first 72 bytes.
DifferWithin72(p1, p2) ==
    Take(p1, BcryptMaxBytes) # Take(p2, BcryptMaxBytes)

\* The two passwords have the same first 72 bytes and differ after them.
DifferAfter72(p1, p2) ==
    /\ p1 # p2
    /\ Take(p1, BcryptMaxBytes) = Take(p2, BcryptMaxBytes)

\* C15: for every password registration accepts, those longer than 72 bytes
\* included, verify_password of the password and a hash get_password_hash
\* made of it is true; verify_password of a password and a hash made of a
\* password that differs from it within the first 72 bytes is false.
C15_VerifyAfterHash ==
    [][\A p1 \in HasherPasswords : \A p2 \in HasherPasswords :
          \A h \in HashesOf(p2) : \A build \in BcryptBuilds :
            verify(p1, h, build) =>
              /\ p1 = p2 => last'.resp = Return(TRUE)
              /\ DifferWithin72(p1, p2) => last'.resp = Return(FALSE)]_vars

\* C16: two passwords with the same first 72 bytes cannot be told apart by
\* verification: against every hash made of either, verify_password gives
\* the same result for both, and that result is true.
C16_SamePrefixIndistinguishable ==
    [][\A p1 \in HasherPasswords : \A p2 \in HasherPasswords :
          \A h \in HashesOf(p1) \cup HashesOf(p2) : \A build \in BcryptBuilds :
            (DifferAfter72(p1, p2) /\ verify(p1, h, build)) =>
              /\ last'.resp = Return(TRUE)
              /\ last'.resp = verify_password(p2, h, build)]_vars

\* C17: verify_password of any password and a stored string that is not a
\* well-formed hash is the value false; it does not raise.
C17_MalformedHashIsFalse ==
    [][\A p \in HasherPasswords : \A h \in MalformedHashes :
          \A build \in BcryptBuilds :
            verify(p, h, build) => last'.resp = Return(FALSE)]_vars

\* The body breaks one of the constraints the claim lists.
SyntacticallyInvalid(b) ==
    \/ Len(b.username) < 3 \/ Len(b.username) > 50
    \/ \E i \in 1..Len(b.username) : b.username[i] \notin WordChars
    \/ ~EmailStr_valid(b.email)
    \/ Len(b.password) < 8 \/ Len(b.password) > 100

\* C18, as the claim states it: POST /auth/register with a syntactically
\* invalid body is answered with status 400 and creates no user record.
C18_InvalidRegister400 ==
    [][\A b \in WideBodies :
          (SyntacticallyInvalid(b) /\ register_begin("w1", b)) =>
            /\ last'.op = "register" /\ last'.req = b
            /\ last'.resp.status = HTTP_400_BAD_REQUEST
            /\ users' = users]_vars

\* C18, amended: POST /auth/register with a syntactically invalid body is
\* answered with status 422 before the handler runs: no registration is
\* started and the user table is unchanged.
C18_InvalidRegister422 ==
    [][\A b \in WideBodies :
          (SyntacticallyInvalid(b) /\ register_begin("w1", b)) =>
            /\ last'.op = "register" /\ last'.req = b
            /\ last'.resp.status = HTTP_422_UNPROCESSABLE_ENTITY
            /\ last'.resp.body = None
            /\ users' = users
            /\ pc' = pc /\ req' = req]_vars

\* C18 witness: a body whose username has a character outside the pattern
\* was answered 422 while a user was registered, and the table still holds
\* that user only.
C18_Witness ==
    /\ last.op = "register"
    /\ last.resp.status = HTTP_422_UNPROCESSABLE_ENTITY
    /\ \E i \in 1..Len(last.req.username) : last.req.username[i] \notin WordChars
    /\ Cardinality(users) = 1
    /\ \A u \in users : u.username # last.req.username

\* A step of one of the auth operations.
AuthStep ==
    \/ \E w \in Workers, b \in RegisterBodies : register_begin(w, b)
    \/ \E w \in Workers : register_check_username(w)
    \/ \E w \in Workers : register_check_email(w)
    \/ \E w \in Workers, s \in Salts : register_commit(w, s)
    \/ \E u \in Usernames, p \in Passwords : login(u, p)
    \/ \E c \in Credentials : get_me(c)
    \/ \E c \in Credentials : logout(c)
    \/ \E c \in Credentials : optional_identity(c)

\* C19: among the auth operations only a register that is answered 201
\* changes the user table, and it adds exactly one row. Login, GET /auth/me,
\* POST /auth/logout, get_current_user and every register that ends in an
\* error (400, or a fault that get_session rolls back) leave the set of rows
\* and every field of every row as they were; no row is deleted.
C19_DirectoryFrame ==
    [][AuthStep =>
         /\ users \subseteq users'
         /\ users' # users =>
              \E w \in Workers :
                /\ RegisterAnswered(w)
                /\ last'.resp.status = HTTP_201_CREATED
                /\ Cardinality(users' \ users) = 1
                /\ \A row \in users' \ users :
                      /\ row.username = req[w].username
                      /\ row.email = req[w].email
         /\ \A w \in Workers :
              (RegisterAnswered(w) /\ last'.resp.status # HTTP_201_CREATED) =>
                users' = users
         /\ (last'.op \in {"login", "get_me", "logout", "get_current_user"}
               /\ last' # last) => users' = users]_vars

\* C19 witness: a register ended in a fault that was rolled back, and the
\* table holds the one row that was there before, with its fields.
C19_Witness ==
    /\ last.op = "register"
    /\ last.resp.status = HTTP_500_INTERNAL_SERVER_ERROR
    /\ Cardinality(users) = 1
    /\ \A u \in users : u.is_active /\ u.id = 1

\* C20: the two dependencies agree on who is authenticated. For every
\* credential a request may carry and every state of the table and the
\* clock, get_current_user gives user u exactly when require_auth returns u,
\* and gives None whenever require_auth raises one of its rejections.
C20_VariantsAgree ==
    \A c \in Credentials :
        LET required == require_auth(c, now, users)
            optional == get_current_user(c, now, users)
        IN  /\ required.kind = "return" => optional = required.value
            /\ required.kind = "raise" => optional = None
            /\ optional # None => required = Return(optional)

\* C20 witness: get_current_user resolved a token login issued to nobody,
\* because its user is disabled, where require_auth raises 403; another
\* token in circulation is resolved to the same user by both.
C20_Witness ==
    /\ last.op = "get_current_user"
    /\ last.req \in issued
    /\ last.resp.body = None
    /\ get_current_user(last.req, now, users) = None
    /\ require_auth(last.req, now, users).kind = "raise"
    /\ require_auth(last.req, now, users).exc.status = HTTP_403_FORBIDDEN

\* The completed_at update_task leaves on a task for a payload.
CompletedAtAfter(old, payload) ==
    IF "status" \notin DOMAIN payload THEN old.completed_at
    ELSE IF payload.status = "done" /\ old.status # "done" THEN now
    ELSE IF payload.status # "done" /\ old.status = "done" THEN NULL
    ELSE old.completed_at

\* What a step of create_task or update_task does to completed_at.
CompletedAtStep ==
    /\ \A payload \in TaskCreates :
           create_task(payload) =>
               \A t \in tasks' \ tasks :
                   t.status = "todo" /\ t.completed_at = NULL
    /\ \A task_id \in TaskIds :
           \A update \in TaskUpdates :
               (update_task(task_id, update)
                    /\ session_get(tasks, task_id) # None) =>
                   /\ session_get(tasks', task_id) # None
                   /\ session_get(tasks', task_id).completed_at =
                          CompletedAtAfter(session_get(tasks, task_id), update)

\* C21: through create_task and update_task calls (and deletions), every
\* task has completed_at set exactly when its status is "done": a new task
\* is "todo" without completed_at, an update into "done" sets completed_at
\* to the current instant, an update out of "done" clears it, and an update
\* from "done" to "done" or without a status leaves it as it was.
C21_CompletedIffDone ==
    /\ [](\A t \in tasks : (t.completed_at # NULL) <=> (t.status = "done"))
    /\ [][CompletedAtStep]_vars

\* A task completed at an earlier instant stands next to one that is in
\* progress and has no completed_at.
C21_Witness ==
    /\ \E t \in tasks :
           t.status = "done" /\ t.completed_at # NULL /\ t.completed_at < now
    /\ \E t \in tasks : t.status = "in_progress" /\ t.completed_at = NULL

\* C22: through create_task, delete_task and bulk_delete_tasks, every task
\* with a parent_id refers to a task that is still in the table: no deletion
\* leaves a subtask behind, at any depth.
C22_NoOrphanedSubtask ==
    \A t \in tasks :
        t.parent_id # NULL => session_get(tasks, t.parent_id) # None

RECURSIVE SumCompleted(_)
SumCompleted(stats) ==
    IF stats = <<>> THEN 0
    ELSE Head(stats).completed + SumCompleted(Tail(stats))

\* The top-level tasks completed on one of the N calendar days that end
\* with the current day.
CompletedInLastDays(N) ==
    {t \in tasks : /\ t.parent_id = NULL
                   /\ t.completed_at # NULL
                   /\ date(t.completed_at) > date(now) - N
                   /\ date(t.completed_at) <= date(now)}

\* C23: get_daily_task_stats(days = N) returns N entries, for the N
\* consecutive calendar days that end with the current day, and the
\* "completed" values add up to the number of top-level tasks completed on
\* those days.
C23_DailyStatsCoverWindow ==
    [][\A N \in Days :
           get_daily_task_stats(N) =>
               LET stats == last'.resp
               IN  /\ Len(stats) = N
                   /\ \A i \in 1..N : stats[i].date = date(now) - N + i
                   /\ SumCompleted(stats) = Cardinality(CompletedInLastDays(N))
      ]_vars

====
